---- MODULE Spec2Model ----
(***************************************************************************)
(* A model of BulkPOItemExtractor (src/BulkPOItemExtractor.py): the item   *)
(* parser parse_items_from_text, the cross-document fold of                *)
(* process_all_pdfs and the Quantity Summary of save_to_excel.             *)
(*                                                                         *)
(* Quantities are Python floats (IEEE 754 binary64).  A non-negative       *)
(* finite double is the record [e, hi, lo]: its 53-bit significand is      *)
(* hi * 2^28 + lo (2^52 <= significand < 2^53) and its value is            *)
(* significand * 2^e; zero is [e |-> 0, hi |-> 0, lo |-> 0].  The two      *)
(* limbs keep every intermediate below 2^31.                               *)
(***************************************************************************)
EXTENDS Integers, Sequences, FiniteSets, TLC

\* ------------------------------------------------------------- floats

Limb == 2 ^ 28               \* the low limb of a significand

Pow2(k) == 2 ^ k

FZero == [e |-> 0, hi |-> 0, lo |-> 0]

\* Round a 56-bit working significand (53 bits and guard, round, sticky)
\* to nearest, ties to even: value (whi * 2^28 + wlo) * 2^e.
FRound(whi, wlo, e) ==
    LET grs   == wlo % 8
        lo0   == (wlo \div 8) + (whi % 8) * (Limb \div 8)
        hi0   == whi \div 8
        up    == grs > 4 \/ (grs = 4 /\ lo0 % 2 = 1)
        lo1   == IF up THEN lo0 + 1 ELSE lo0
        hi1   == IF lo1 = Limb THEN hi0 + 1 ELSE hi0
        lo2   == IF lo1 = Limb THEN 0 ELSE lo1
    IN  IF hi1 = Pow2(25)
        THEN [e |-> e + 4, hi |-> Pow2(24), lo |-> 0]
        ELSE [e |-> e + 3, hi |-> hi1, lo |-> lo2]

\* The working significand shifted right by d bits, the bits shifted out
\* kept as a sticky last bit.
ShiftRightSticky(whi, wlo, d) ==
    IF d = 0 THEN <<whi, wlo>>
    ELSE IF d < 28 THEN
        LET p      == Pow2(d)
            lo     == (wlo \div p) + (whi % p) * Pow2(28 - d)
            sticky == IF wlo % p # 0 THEN 1 ELSE 0
        IN  <<whi \div p, IF lo % 2 = 0 THEN lo + sticky ELSE lo>>
    ELSE IF d < 56 THEN
        LET p      == Pow2(d - 28)
            lo     == whi \div p
            sticky == IF wlo # 0 \/ whi % p # 0 THEN 1 ELSE 0
        IN  <<0, IF lo % 2 = 0 THEN lo + sticky ELSE lo>>
    ELSE <<0, IF whi # 0 \/ wlo # 0 THEN 1 ELSE 0>>

\* The significand of x times 8: room for guard, round and sticky.
Working(x) ==
    <<x.hi * 8 + (x.lo \div Pow2(25)), (x.lo % Pow2(25)) * 8>>

\* x + y in binary64 (both non-negative, finite).
FAdd(x, y) ==
    IF x = FZero THEN y
    ELSE IF y = FZero THEN x
    ELSE LET a   == IF x.e >= y.e THEN x ELSE y
             b   == IF x.e >= y.e THEN y ELSE x
             wa  == Working(a)
             wb0 == Working(b)
             wb  == ShiftRightSticky(wb0[1], wb0[2], a.e - b.e)
             slo == wa[2] + wb[2]
             lo  == slo % Limb
             hi  == wa[1] + wb[1] + (slo \div Limb)
         IN  IF hi >= Limb
             THEN LET s == ShiftRightSticky(hi, lo, 1)
                  IN  FRound(s[1], s[2], a.e - 3 + 1)
             ELSE FRound(hi, lo, a.e - 3)

\* x < y on non-negative doubles.
FLt(x, y) ==
    IF y = FZero THEN FALSE
    ELSE IF x = FZero THEN TRUE
    ELSE \/ x.e < y.e
         \/ x.e = y.e /\ x.hi < y.hi
         \/ x.e = y.e /\ x.hi = y.hi /\ x.lo < y.lo

\* The number of binary digits of k (0 for 0), k below 2^30.
BitLen(k) == CHOOSE n \in 0..30 : k < Pow2(n) /\ (n = 0 \/ Pow2(n - 1) <= k)

\* One step of the long division by 1000: s more binary digits of the
\* quotient (s <= 21) appended to the working significand w = <<hi, lo, r>>,
\* r the running remainder.
DivStep(w, s) ==
    LET num == w[3] * Pow2(s)
        lo  == (w[2] % Pow2(28 - s)) * Pow2(s) + (num \div 1000)
        hi  == w[1] * Pow2(s) + (w[2] \div Pow2(28 - s))
    IN  <<hi, lo, num % 1000>>

Min(a, b) == IF a <= b THEN a ELSE b

\* _to_float on the text of a decimal number, given as its value in
\* thousandths (so "36.000" is 36000 and "0.1" is 100), below 2^30: the
\* nearest double to q / 1000, from the first 56 binary digits of the
\* quotient and a sticky bit for the rest.
ToFloat(q) ==
    IF q = 0 THEN FZero
    ELSE LET len == BitLen(q)
             lg  == IF len >= 10
                    THEN (IF q >= 1000 * Pow2(len - 10) THEN len - 10 ELSE len - 11)
                    ELSE (IF q * Pow2(10 - len) >= 1000 THEN len - 10 ELSE len - 11)
             s   == 55 - lg
             s1  == Min(s, 21)
             s2  == Min(s - s1, 21)
             s3  == Min(s - s1 - s2, 21)
             s4  == s - s1 - s2 - s3
             w   == DivStep(DivStep(DivStep(DivStep(
                        <<0, q \div 1000, q % 1000>>, s1), s2), s3), s4)
         IN  FRound(w[1], IF w[3] # 0 /\ w[2] % 2 = 0 THEN w[2] + 1 ELSE w[2], 0 - s)

\* -------------------------------------------------------------- lines
(***************************************************************************)
(* A line of extracted text, already stripped and non-empty (line 93), is  *)
(* a record of what the parser's regular expressions can see in it:        *)
(*   t    the shape of the line                                            *)
(*          "item"    3-5 digits, whitespace, text   "00010 Widget"        *)
(*          "num"     one numeric token, nothing else        "48"          *)
(*          "pcs"     a number and a unit token              "12 Pcs"      *)
(*          "qty"     a Qty/Quantity label and a number      "Qty: 24"     *)
(*          "diy"     a whole code                           "DIY28045"    *)
(*          "diyword" the prefix alone, no digit             "DIY"         *)
(*          "piece"   exactly Piece or Pieces                              *)
(*          "text"    none of these, no digit                              *)
(*   s    the text of the first numeric token of the line ("" if none)     *)
(*   v    its decimal value in thousandths (0 if none)                     *)
(*   d5   the whole line is five or more digits                            *)
(*   name, q, qv   of an item line: the text after the item number up to   *)
(*        the same-line quantity, the kind of same-line quantity ("dec3":  *)
(*        a token with three decimals, "pcs": a number before Pcs, "none") *)
(*        and its value in thousandths                                     *)
(***************************************************************************)
ItemLine(num, v, name, q, qv) ==
    [t |-> "item", s |-> num, v |-> v, d5 |-> FALSE, name |-> name, q |-> q, qv |-> qv]
Other(t, s, v, d5) ==
    [t |-> t, s |-> s, v |-> v, d5 |-> d5, name |-> "", q |-> "none", qv |-> 0]

\* what the regular expressions see in each line the texts are made of
Shape(text) ==
    CASE text = "00010 Widget"             -> ItemLine("00010", 10000, "Widget", "none", 0)
      [] text = "00020 Bolt 36.000 154.00" -> ItemLine("00020", 20000, "Bolt", "dec3", 36000)
      [] text = "00030 Nut 20,000 Pcs"     -> ItemLine("00030", 30000, "Nut", "pcs", 20000000)
      [] text = "Delivery terms"           -> Other("text", "", 0, FALSE)
      [] text = "DIY"                      -> Other("diyword", "", 0, FALSE)
      [] text = "DIY28045"                 -> Other("diy", "28045", 28045000, FALSE)
      [] text = "00048"                    -> Other("num", "00048", 48000, TRUE)
      [] text = "10000"                    -> Other("num", "10000", 10000000, TRUE)
      [] text = "24.000"                   -> Other("num", "24.000", 24000, FALSE)
      [] text = "0"                        -> Other("num", "0", 0, FALSE)
      [] text = "12 Pcs"                   -> Other("pcs", "12", 12000, FALSE)
      [] text = "12,000 Pcs"               -> Other("pcs", "12,000", 12000000, FALSE)
      [] text = "Qty: 7"                   -> Other("qty", "7", 7000, FALSE)
      [] text = "Piece"                    -> Other("piece", "", 0, FALSE)

NoMatch == 0 - 1

\* re.match(r'^\s*(\d{3,5})\s+(.+)$', line)
is_item_start(line) == line.t = "item"

\* re.search(r'(\d+\.\d{3})', raw): the value matched, or NoMatch
same_line_qty(line) == IF line.q = "dec3" THEN line.qv ELSE NoMatch

\* re.search(r'([\d,]+(?:\.\d+)?)[^\S\r\n]*Pcs', raw, flags=re.I)
same_line_pcs(line) == IF line.q = "pcs" THEN line.qv ELSE NoMatch

\* re.search(r'\bDIY\d+\b', linej)
d1(line) == line.t = "diy"

\* 'DIY' in linej and not re.search(r'\d', linej)
DiyAlone(line) == line.t = "diyword"

\* re.fullmatch(r'\d{5,}', line)
IsDigits5(line) == line.d5

\* re.search(r'([\d,]+(?:\.\d+)?)\s*(?:Pcs|Pieces|Piece|P\.cs)\b', linej, flags=re.I)
m_pcs(line) == IF line.t = "pcs" THEN line.v ELSE NoMatch

\* re.fullmatch(r'([\d,]+(?:\.\d+)?)', linej)
m_num(line) == IF line.t = "num" THEN line.v ELSE NoMatch

\* re.search(r'(?:Qty|Quantity)[^\d\n\r]*([\d,]+(?:\.\d+)?)', linej, flags=re.I)
m_q(line) == IF line.t = "qty" THEN line.v ELSE NoMatch

\* re.fullmatch(r'(?i)piece|pieces', line)
IsPiece(line) == line.t = "piece"

\* re.search(r'([\d,]+(?:\.\d+)?)', prev_line): the first number anywhere in
\* the line, the item number of an item line and the digits of a code included
m_prev(line) == IF line.s # "" THEN line.v ELSE NoMatch

\* ------------------------------------------------------------- bounds

LookAhead == 50        \* window_end = min(n, i + 50)
Threshold == 10000     \* 0 < cand < 10000
MaxLines  == 4         \* the longest free text
MaxTail   == 1         \* the lines after the padding of a long text
MaxItems  == 3         \* the items of a whole batch

\* -------------------------------------------------------------- state

VARIABLES
    lines,          \* parse_items_from_text: the stripped non-empty lines
    i,              \* the cursor of the scan (0-based, as in the source)
    j,              \* the cursor of the look-ahead
    k,              \* the cursor of the Piece/Pieces fallback
    window_end,     \* min(n, i + 50)
    item_number,    \* m.group(1) of the item being parsed
    raw,            \* its provisional name
    qty,            \* its quantity, None until one is found
    diy_code,       \* its code: <<>> or <<"DIY", digits>>
    items,          \* the items emitted so far
    pc,             \* where parse_items_from_text is
    src,            \* history: the line the current qty was read from
    via,            \* history: the strategy that set it
    skipped,        \* history: the digits-only lines consumed by j += 1
    hist,           \* history: per emitted item, its start line, src and via
    all_pos_data,   \* process_all_pdfs: the results, in insertion order
    combined_items, \* the aggregate entries, by key
    summary_rows,   \* save_to_excel: the rows of the Quantity Summary, by key
    po_columns,     \* save_to_excel: the document columns, in order
    bpc             \* where run_analysis is

batchVars == <<all_pos_data, combined_items, summary_rows, po_columns, bpc>>

parseVars == <<lines, i, j, k, window_end, item_number, raw, qty, diy_code,
               items, pc, src, via, skipped, hist>>

None == [e |-> 0, hi |-> 0 - 1, lo |-> 0]

n == Len(lines)

\* lines[idx] of the source, 0-based
Line(idx) == Shape(lines[idx + 1])

\* a variant that lets 10000 itself through: 0 < cand <= 10000
InRangeInclusive(cand) ==
    FLt(FZero, cand) /\ ~FLt(ToFloat(Threshold * 1000), cand)
\* 0 < cand < 10000
InRange(cand) ==
    FLt(FZero, cand) /\ FLt(cand, ToFloat(Threshold * 1000))

\* window_end = min(n, i + 50)
WindowEnd(len, idx) == Min(len, idx + LookAhead)

\* a variant that resumes one line further: i = j + 1
NextCursorPast(jj) == jj + 1
\* i = j: the scan resumes at the line that ended the look-ahead
NextCursor(jj) == jj

\* ------------------------------------------------------------- texts

\* the shapes a free text is made of, and those a long text ends with
CoreLines == {"00010 Widget", "00020 Bolt 36.000 154.00", "DIY", "00048",
              "10000", "12 Pcs", "Piece"}
AllLines  == CoreLines \cup {"00030 Nut 20,000 Pcs", "Delivery terms", "DIY28045",
                             "24.000", "0", "12,000 Pcs", "Qty: 7"}

SeqsUpTo(S, len) == UNION {[1..m -> S] : m \in 0..len}

Padding(p) == [x \in 1..p |-> "Delivery terms"]

\* an item with no quantity of its own, then nothing or enough text to put
\* the tail on the last line of the window or on the first line after it
PadSizes == {0, LookAhead - 2, LookAhead - 1}

Texts ==
    SeqsUpTo(CoreLines, MaxLines)
    \cup {<<"00010 Widget">> \o Padding(p) \o tail :
             p \in PadSizes, tail \in SeqsUpTo(AllLines, MaxTail)}

\* --------------------------------------------- parse_items_from_text

ParseInit ==
    /\ lines \in Texts
    /\ i = 0
    /\ j = 0
    /\ k = 0
    /\ window_end = 0
    /\ item_number = ""
    /\ raw = ""
    /\ qty = None
    /\ diy_code = <<>>
    /\ items = <<>>
    /\ pc = "scan"
    /\ src = NoMatch
    /\ via = "none"
    /\ skipped = {}
    /\ hist = <<>>

\* lines 100-104: the line under the cursor starts no item
NotItemStart ==
    /\ pc = "scan"
    /\ i < n
    /\ ~is_item_start(Line(i))
    /\ i' = i + 1
    /\ UNCHANGED <<lines, j, k, window_end, item_number, raw, qty, diy_code,
                   items, pc, src, via, skipped, hist>>
    /\ UNCHANGED batchVars

\* lines 106-134: an item starts; its own line is tried for a quantity
ItemStart ==
    /\ pc = "scan"
    /\ i < n
    /\ is_item_start(Line(i))
    /\ item_number' = Line(i).s
    /\ raw' = Line(i).name
    /\ diy_code' = <<>>
    /\ IF same_line_qty(Line(i)) # NoMatch
       THEN qty' = ToFloat(same_line_qty(Line(i))) /\ via' = "same" /\ src' = i
       ELSE IF same_line_pcs(Line(i)) # NoMatch
       THEN qty' = ToFloat(same_line_pcs(Line(i))) /\ via' = "same" /\ src' = i
       ELSE qty' = None /\ via' = "none" /\ src' = NoMatch
    /\ j' = i + 1
    /\ window_end' = WindowEnd(n, i)
    /\ pc' = "look"
    /\ UNCHANGED <<lines, i, k, items, skipped, hist>>
    /\ UNCHANGED batchVars

\* lines 153-175 on one line: the first of the three patterns whose number
\* is in range, or NoMatch
Candidate(line) ==
    IF m_pcs(line) # NoMatch /\ InRange(ToFloat(m_pcs(line))) THEN m_pcs(line)
    ELSE IF m_num(line) # NoMatch /\ InRange(ToFloat(m_num(line))) THEN m_num(line)
    ELSE IF m_q(line) # NoMatch /\ InRange(ToFloat(m_q(line))) THEN m_q(line)
    ELSE NoMatch

\* lines 135-179: one turn of the look-ahead loop
LookAheadStep ==
    /\ pc = "look"
    /\ j < window_end
    /\ ~is_item_start(Line(j))
    /\ LET linej == Line(j)
           split == /\ diy_code = <<>>
                    /\ ~d1(linej)
                    /\ DiyAlone(linej)
                    /\ j + 1 < n
                    /\ IsDigits5(Line(j + 1))
           code  == IF diy_code # <<>> THEN diy_code
                    ELSE IF d1(linej) THEN <<"DIY", linej.s>>
                    ELSE IF split THEN <<"DIY", Line(j + 1).s>>
                    ELSE <<>>
           j1    == IF split THEN j + 1 ELSE j
           cand  == IF qty = None THEN Candidate(linej) ELSE NoMatch
           q1    == IF cand # NoMatch THEN ToFloat(cand) ELSE qty
       IN  /\ diy_code' = code
           /\ skipped' = IF split THEN skipped \cup {j + 1} ELSE skipped
           /\ qty' = q1
           /\ src' = IF cand # NoMatch THEN j ELSE src
           /\ via' = IF cand # NoMatch THEN "look" ELSE via
           /\ IF code # <<>> /\ q1 # None
              THEN j' = j1 /\ pc' = "fallback"
              ELSE j' = j1 + 1 /\ pc' = "look"
    /\ k' = i + 1
    /\ UNCHANGED <<lines, i, window_end, item_number, raw, items, hist>>
    /\ UNCHANGED batchVars

\* line 135: the window or the next item-start line ends the look-ahead
LookAheadEnd ==
    /\ pc = "look"
    /\ ~(j < window_end /\ ~is_item_start(Line(j)))
    /\ pc' = "fallback"
    /\ k' = i + 1
    /\ UNCHANGED <<lines, i, j, window_end, item_number, raw, qty, diy_code,
                   items, src, via, skipped, hist>>
    /\ UNCHANGED batchVars

\* lines 182-191: one turn of the fallback loop
FallbackStep ==
    /\ pc = "fallback"
    /\ qty = None
    /\ k < window_end
    /\ LET prev == IF IsPiece(Line(k)) /\ k - 1 >= i + 1
                   THEN m_prev(Line(k - 1)) ELSE NoMatch
           hit  == prev # NoMatch /\ InRange(ToFloat(prev))
       IN  /\ qty' = IF hit THEN ToFloat(prev) ELSE qty
           /\ src' = IF hit THEN k - 1 ELSE src
           /\ via' = IF hit THEN "fallback" ELSE via
    /\ k' = k + 1
    /\ UNCHANGED <<lines, i, j, window_end, item_number, raw, diy_code,
                   items, pc, skipped, hist>>
    /\ UNCHANGED batchVars

\* lines 193-218: the item is emitted, with 0.0 for a quantity not found
Emit ==
    /\ pc = "fallback"
    /\ qty # None \/ k >= window_end
    /\ items' = Append(items, [item_number |-> item_number,
                               name        |-> raw,
                               quantity    |-> IF qty = None THEN FZero ELSE qty,
                               diy_code    |-> diy_code])
    /\ hist' = Append(hist, [start |-> i, src |-> src, via |-> via, end |-> j])
    /\ i' = NextCursor(j)
    /\ pc' = "scan"
    /\ UNCHANGED <<lines, j, k, window_end, item_number, raw, qty, diy_code,
                   src, via, skipped>>
    /\ UNCHANGED batchVars

\* lines 100, 220-221
Finish ==
    /\ pc = "scan"
    /\ i >= n
    /\ pc' = "done"
    /\ UNCHANGED <<lines, i, j, k, window_end, item_number, raw, qty, diy_code,
                   items, src, via, skipped, hist>>
    /\ UNCHANGED batchVars

ParseNext ==
    \/ NotItemStart
    \/ ItemStart
    \/ LookAheadStep
    \/ LookAheadEnd
    \/ FallbackStep
    \/ Emit
    \/ Finish

vars == <<parseVars, batchVars>>

BatchIdle ==
    /\ all_pos_data = <<>>
    /\ combined_items = <<>>
    /\ summary_rows = <<>>
    /\ po_columns = <<>>
    /\ bpc = "idle"

InitParse == ParseInit /\ BatchIdle

SpecParse == InitParse /\ [][ParseNext]_vars

\* -------------------------------------------------------------- batch

\* the files of the folder, and the characters of their names
Chars(name) ==
    CASE name = "a b.pdf" -> <<"a", " ", "b", ".", "p", "d", "f">>
      [] name = "a_b.pdf" -> <<"a", "_", "b", ".", "p", "d", "f">>
      [] name = "po 2024 north region 1.pdf" ->
            <<"p", "o", " ", "2", "0", "2", "4", " ", "n", "o", "r", "t", "h",
              " ", "r", "e", "g", "i", "o", "n", " ", "1", ".", "p", "d", "f">>
Files == {"a b.pdf", "a_b.pdf", "po 2024 north region 1.pdf"}

\* what "Document Ref:" is followed by in a text: nothing, or a number
NoRef == <<>>
Ref4500 == <<"4", "5", "0", "0">>

\* the quantities of the items, in thousandths: 0.1 and 0.4
Quantities == {100, 400}
Codes == {<<>>, <<"DIY", "28045">>}

ParsedItems ==
    {[item_number |-> "00010", name |-> "Widget", quantity |-> ToFloat(q),
      diy_code |-> c] : q \in Quantities, c \in Codes}

\* what a file yields: whether each extraction strategy returns text, the
\* reference number in that text, and the items parse_items_from_text
\* finds in it
Documents(refs, its, most) ==
    [plumber : BOOLEAN, pypdf2 : BOOLEAN, ref : refs, items : SeqsUpTo(its, most)]

\* a dict as the sequence of its <<key, value>> pairs in insertion order
Has(d, key) == \E x \in DOMAIN d : d[x][1] = key
Get(d, key, default) ==
    IF Has(d, key) THEN d[CHOOSE x \in DOMAIN d : d[x][1] = key][2] ELSE default
Put(d, key, value) ==
    IF Has(d, key)
    THEN [x \in DOMAIN d |-> IF d[x][1] = key THEN <<key, value>> ELSE d[x]]
    ELSE Append(d, <<key, value>>)

\* lines 53-57: only the reference number is kept of the metadata
extract_po_metadata(doc) ==
    IF doc.ref # NoRef THEN <<(<<"po_number", doc.ref>>)>> ELSE <<>>

\* line 238: 'success': bool(items)
Success(its) == its # <<>>

\* lines 228-238
process_single_pdf(name, doc) ==
    IF ~doc.plumber /\ ~doc.pypdf2
    THEN [filename |-> name, success |-> FALSE, items |-> <<>>, metadata |-> <<>>]
    ELSE [filename |-> name, success |-> Success(doc.items), items |-> doc.items,
          metadata |-> extract_po_metadata(doc)]

\* line 246: the aggregate key, the name or the name and the code
Key(item) == IF item.diy_code # <<>> THEN <<item.name, item.diy_code>> ELSE <<item.name>>

\* lines 14-19: the entry defaultdict makes for a new key
NewEntry == [total_quantity |-> FZero, po_files |-> <<>>,
             quantities_per_po |-> <<>>, diy_code |-> <<>>]

\* a variant that assigns instead of adding
AddTotalAssign(total, q) == q
\* line 247: total_quantity += float(item['quantity'])
AddTotal(total, q) == FAdd(total, q)

\* a variant that adds to the recorded quantity instead of replacing it
SetPerPoAdd(qpp, name, q) == Put(qpp, name, FAdd(Get(qpp, name, FZero), q))
\* line 249: quantities_per_po[filename] = float(item['quantity'])
SetPerPo(qpp, name, q) == Put(qpp, name, q)

\* lines 246-250: one item folded into the combined map
FoldItem(comb, name, item) ==
    LET e == Get(comb, Key(item), NewEntry)
    IN  Put(comb, Key(item),
            [total_quantity    |-> AddTotal(e.total_quantity, item.quantity),
             po_files          |-> Append(e.po_files, name),
             quantities_per_po |-> SetPerPo(e.quantities_per_po, name, item.quantity),
             diy_code          |-> item.diy_code])

\* line 245: for item in result['items']
RECURSIVE FoldItems(_, _, _)
FoldItems(comb, name, its) ==
    IF its = <<>> THEN comb
    ELSE FoldItems(FoldItem(comb, name, Head(its)), name, Tail(its))

\* a variant in which a failed document ends the loop
AfterDocumentHalt(result) == IF result.success THEN "process" ELSE "halted"
\* lines 241-244: the loop goes on to the next file whatever the result
AfterDocument(result) == "process"

\* the items of the results so far
RECURSIVE CountItems(_)
CountItems(results) ==
    IF results = <<>> THEN 0 ELSE Len(Head(results).items) + CountItems(Tail(results))

Processed == {all_pos_data[x].filename : x \in DOMAIN all_pos_data}

BatchInit ==
    /\ all_pos_data = <<>>
    /\ combined_items = <<>>
    /\ summary_rows = <<>>
    /\ po_columns = <<>>
    /\ bpc = "process"

\* lines 241-250: one file of the folder, its content among docs
ProcessFile(docs) ==
    /\ bpc = "process"
    /\ \E name \in Files \ Processed, doc \in docs :
          LET result == process_single_pdf(name, doc)
          IN  /\ all_pos_data' = Append(all_pos_data, result)
              /\ combined_items' =
                    IF result.success /\ result.items # <<>>
                    THEN FoldItems(combined_items, result.filename, result.items)
                    ELSE combined_items
              /\ bpc' = AfterDocument(result)
    /\ UNCHANGED <<summary_rows, po_columns>>
    /\ UNCHANGED parseVars

\* a file whose text carries no reference number
ProcessPdf ==
    ProcessFile(Documents({NoRef}, ParsedItems, MaxItems - CountItems(all_pos_data)))

\* line 241: the folder holds no more files
LoopEnd ==
    /\ bpc = "process"
    /\ bpc' = "done"
    /\ UNCHANGED <<all_pos_data, combined_items, summary_rows, po_columns>>
    /\ UNCHANGED parseVars

ParseIdle ==
    /\ lines = <<>>
    /\ i = 0
    /\ j = 0
    /\ k = 0
    /\ window_end = 0
    /\ item_number = ""
    /\ raw = ""
    /\ qty = None
    /\ diy_code = <<>>
    /\ items = <<>>
    /\ pc = "idle"
    /\ src = NoMatch
    /\ via = "none"
    /\ skipped = {}
    /\ hist = <<>>

Init == ParseIdle /\ BatchInit

Next == ProcessPdf \/ LoopEnd

Spec == Init /\ [][Next]_vars

\* ------------------------------------------------------- save_to_excel

\* po_file.replace('.pdf', ''): the characters outside every ".pdf"
RemovePdf(s) ==
    LET starts == {x \in 1..(Len(s) - 3) :
                      SubSeq(s, x, x + 3) = <<".", "p", "d", "f">>}
        kept   == {x \in 1..Len(s) : \A y \in starts : x < y \/ x > y + 3}
    IN  [m \in 1..Cardinality(kept) |->
            s[CHOOSE x \in kept : Cardinality({y \in kept : y <= x}) = m]]

\* lines 223-226
get_short_po_name(po_file, metadata) ==
    IF Has(metadata, "po_number") THEN Get(metadata, "po_number", <<>>)
    ELSE LET stem == RemovePdf(Chars(po_file))
             cut  == SubSeq(stem, 1, Min(20, Len(stem)))
         IN  [x \in DOMAIN cut |-> IF cut[x] = " " THEN "_" ELSE cut[x]]

\* lines 274-276: the document cells of a row, a later document replacing
\* the cell of an earlier one with the same short name
RECURSIVE RowCells(_, _, _)
RowCells(row, results, qpp) ==
    IF results = <<>> THEN row
    ELSE RowCells(Put(row,
                      get_short_po_name(Head(results).filename, Head(results).metadata),
                      Get(qpp, Head(results).filename, FZero)),
                  Tail(results), qpp)

\* line 277: sum(float(row.get(po, 0.0)) for po in po_columns)
RECURSIVE GrandTotal(_, _)
GrandTotal(row, cols) ==
    IF cols = <<>> THEN FZero
    ELSE FAdd(GrandTotal(row, SubSeq(cols, 1, Len(cols) - 1)),
              Get(row, cols[Len(cols)], FZero))

\* lines 267-278
SaveToExcel ==
    /\ bpc = "process"
    /\ LET cols == [x \in DOMAIN all_pos_data |->
                      get_short_po_name(all_pos_data[x].filename,
                                        all_pos_data[x].metadata)]
       IN  /\ po_columns' = cols
           /\ summary_rows' =
                [r \in DOMAIN combined_items |->
                    LET data  == combined_items[r][2]
                        cells == RowCells(<<>>, all_pos_data, data.quantities_per_po)
                    IN  [label       |-> combined_items[r][1][1],
                         diy_code    |-> data.diy_code,
                         cells       |-> cells,
                         grand_total |-> GrandTotal(cells, cols)]]
    /\ bpc' = "saved"
    /\ UNCHANGED <<all_pos_data, combined_items>>
    /\ UNCHANGED parseVars

\* the items of the Quantity Summary's batches: one quantity, two keys
ReportItems == {it \in ParsedItems : it.quantity = ToFloat(400)}

\* a file whose text may carry a reference number
ProcessReportPdf ==
    ProcessFile(Documents({NoRef, Ref4500}, ReportItems,
                          MaxItems - CountItems(all_pos_data)))

ReportNext == ProcessReportPdf \/ SaveToExcel

SpecReport == Init /\ [][ReportNext]_vars

\* ------------------------------------------------------ claims: batch

\* the values of a dict added up from left to right, as sum() does
RECURSIVE SumValues(_)
SumValues(d) ==
    IF d = <<>> THEN FZero
    ELSE FAdd(SumValues(SubSeq(d, 1, Len(d) - 1)), d[Len(d)][2])

\* the items of a result that carry the key, in order
WithKey(result, key) ==
    LET Carries(it) == Key(it) = key IN SelectSeq(result.items, Carries)

NoDuplicateKeys(result) ==
    \A x, y \in DOMAIN result.items :
        x # y => Key(result.items[x]) # Key(result.items[y])

\* C1: when no document holds two items with the same key, every entry's
\* total_quantity is the sum of the values now in its quantities_per_po.
C1_TotalIsSumOfPerPo ==
    (\A x \in DOMAIN all_pos_data : NoDuplicateKeys(all_pos_data[x]))
    => \A r \in DOMAIN combined_items :
          combined_items[r][2].total_quantity
              = SumValues(combined_items[r][2].quantities_per_po)

\* three documents have contributed to one entry, none with a repeated key
C1_Witness ==
    /\ \A x \in DOMAIN all_pos_data : NoDuplicateKeys(all_pos_data[x])
    /\ \E r \in DOMAIN combined_items :
          /\ Len(combined_items[r][2].quantities_per_po) = 3
          /\ combined_items[r][2].quantities_per_po[1][2]
                # combined_items[r][2].quantities_per_po[3][2]

\* the results put in the order of the file names
FileRank(name) ==
    CASE name = "a b.pdf" -> 1
      [] name = "a_b.pdf" -> 2
      [] name = "po 2024 north region 1.pdf" -> 3

Sorted(results) ==
    [m \in DOMAIN results |->
        results[CHOOSE x \in DOMAIN results :
                   Cardinality({y \in DOMAIN results :
                       FileRank(results[y].filename)
                           <= FileRank(results[x].filename)}) = m]]

\* process_all_pdfs on the results in the order given
RECURSIVE FoldResults(_, _)
FoldResults(comb, results) ==
    IF results = <<>> THEN comb
    ELSE FoldResults(IF Head(results).success /\ Head(results).items # <<>>
                     THEN FoldItems(comb, Head(results).filename, Head(results).items)
                     ELSE comb,
                     Tail(results))

\* C4: whatever the order the documents were folded in, every key's final
\* total_quantity is the one the same documents give in file-name order
\* (stated for the batches in which no document repeats a key).
C4_TotalIsOrderIndependent ==
    (bpc = "done" /\ \A x \in DOMAIN all_pos_data : NoDuplicateKeys(all_pos_data[x]))
    => \A r \in DOMAIN combined_items :
          combined_items[r][2].total_quantity
              = Get(FoldResults(<<>>, Sorted(all_pos_data)),
                    combined_items[r][1], NewEntry).total_quantity

\* one result per document, success iff an item was parsed, the loop alive
C5_State ==
    /\ \A x, y \in DOMAIN all_pos_data :
          all_pos_data[x].filename = all_pos_data[y].filename => x = y
    /\ \A x \in DOMAIN all_pos_data :
          all_pos_data[x].success = (all_pos_data[x].items # <<>>)
    /\ bpc \in {"process", "done", "saved"}

\* a step that records a failed document
C5_Step ==
    (/\ Len(all_pos_data') = Len(all_pos_data) + 1
     /\ ~all_pos_data'[Len(all_pos_data')].success)
    => /\ combined_items' = combined_items
       /\ bpc' = "process"

\* C5: every document has exactly one result, success is true iff an item
\* was parsed, a failed document leaves the combined map as it was, and
\* the loop goes on after it.
C5_FailureIsRecordedAndSkipped == []C5_State /\ [][C5_Step]_vars

\* a document with no text and one with text but no item have failed, and
\* the document after them has been folded in
C5_Witness ==
    /\ Len(all_pos_data) = 3
    /\ ~all_pos_data[1].success
    /\ ~all_pos_data[2].success
    /\ all_pos_data[3].success
    /\ combined_items # <<>>
    /\ \A r \in DOMAIN combined_items :
          combined_items[r][2].po_files = <<all_pos_data[3].filename>>

Count(s, v) == Cardinality({x \in DOMAIN s : s[x] = v})

\* the quantities of every item with the key, in the order they were folded
RECURSIVE Contributions(_, _)
Contributions(results, key) ==
    IF results = <<>> THEN <<>>
    ELSE LET its == WithKey(Head(results), key)
         IN  [x \in DOMAIN its |-> <<x, its[x].quantity>>]
                 \o Contributions(Tail(results), key)

\* C9: when a document holds two items with the same key, the entry keeps
\* the later quantity for that document, lists the document once per item,
\* and has both quantities in its total.
C9_LastWriteWinsTotalKeepsBoth ==
    \A r \in DOMAIN combined_items, x \in DOMAIN all_pos_data :
        LET key   == combined_items[r][1]
            entry == combined_items[r][2]
            its   == WithKey(all_pos_data[x], key)
            name  == all_pos_data[x].filename
        IN  Len(its) >= 2
            => /\ Get(entry.quantities_per_po, name, None) = its[Len(its)].quantity
               /\ Count(entry.po_files, name) = Len(its)
               /\ Count(entry.quantities_per_po,
                        <<name, its[Len(its)].quantity>>) = 1
               /\ entry.total_quantity = SumValues(Contributions(all_pos_data, key))

\* a document held the same key with 0.1 and then 0.4, after another
\* document had contributed to the entry
C9_Witness ==
    \E r \in DOMAIN combined_items :
        /\ Len(all_pos_data) = 2
        /\ WithKey(all_pos_data[1], combined_items[r][1]) # <<>>
        /\ LET its == WithKey(all_pos_data[2], combined_items[r][1])
           IN  /\ Len(its) = 2
               /\ its[1].quantity = ToFloat(100)
               /\ its[2].quantity = ToFloat(400)

\* the quantities an entry records for the documents, added up in order
RECURSIVE PerDocumentSum(_, _)
PerDocumentSum(results, qpp) ==
    IF results = <<>> THEN FZero
    ELSE FAdd(PerDocumentSum(SubSeq(results, 1, Len(results) - 1), qpp),
              Get(qpp, results[Len(results)].filename, FZero))

\* C6: every row of the Quantity Summary has one column per document, the
\* column of a document holding the quantity recorded for that document
\* (0.0 when it has none), and a Grand Total that is the sum of those
\* quantities.
C6_RowHoldsEveryDocument ==
    bpc = "saved"
    => \A r \in DOMAIN summary_rows :
          LET qpp == combined_items[r][2].quantities_per_po
          IN  /\ Len(po_columns) = Len(all_pos_data)
              /\ \A x \in DOMAIN all_pos_data :
                    Get(summary_rows[r].cells, po_columns[x], None)
                        = Get(qpp, all_pos_data[x].filename, FZero)
              /\ summary_rows[r].grand_total = PerDocumentSum(all_pos_data, qpp)

\* ----------------------------------------------------- claims: parser

ItemStarts == {x \in 0..(n - 1) : is_item_start(Line(x))}

\* the first item-start line after line x, or n
NextItemStart(x) ==
    IF \E y \in ItemStarts : y > x
    THEN CHOOSE y \in ItemStarts : y > x /\ \A z \in ItemStarts : z > x => y <= z
    ELSE n

\* C2: the items emitted are, in order, the item-start lines the cursor has
\* passed, one each; an item whose quantity was not found is emitted with
\* 0.0; the line skipped after a split code starts no item.
C2_OneItemPerItemStart ==
    /\ Len(hist) = Len(items)
    /\ \A x \in DOMAIN hist :
          /\ is_item_start(Line(hist[x].start))
          /\ items[x].item_number = Line(hist[x].start).s
          /\ hist[x].via = "none" => items[x].quantity = FZero
    /\ \A x, y \in DOMAIN hist : x < y => hist[x].start < hist[y].start
    /\ \A s \in skipped : ~is_item_start(Line(s))
    /\ pc \in {"scan", "done"}
       => {hist[x].start : x \in DOMAIN hist} = {y \in ItemStarts : y < i}
    /\ pc = "done" => Len(items) = Cardinality(ItemStarts)

\* a text is done whose first item lost the line after its split code to
\* the skip and got no quantity, and whose second item follows
C2_Witness ==
    /\ pc = "done"
    /\ Len(items) = 2
    /\ skipped # {}
    /\ items[1].quantity = FZero
    /\ items[1].diy_code # <<>>

\* q is the number of line x, accepted as a quantity, or nothing was found
ReadFrom(x, source, q) ==
    IF source = "none" THEN q \in {None, FZero}
    ELSE /\ x # NoMatch
         /\ 0 < Line(x).v /\ Line(x).v < 10000 * 1000
         /\ q = ToFloat(Line(x).v)
         /\ FLt(FZero, q) /\ FLt(q, ToFloat(10000 * 1000))

C7_WindowReachesLine50 ==
    \A x \in DOMAIN hist :
        LET s == hist[x].start
        IN  (/\ same_line_qty(Line(s)) = NoMatch
             /\ same_line_pcs(Line(s)) = NoMatch
             /\ s + 50 < n
             /\ \A y \in (s + 1)..(s + 49) :
                   ~is_item_start(Line(y)) /\ Line(y).t = "text"
             /\ Line(s + 50).t = "num"
             /\ 0 < Line(s + 50).v /\ Line(s + 50).v < 10000 * 1000)
            => items[x].quantity = ToFloat(Line(s + 50).v)

\* C8: the cursor moves to the line that ended the look-ahead, past the
\* item's own line, and the digits-only line that gave a split code its
\* digits is not read again for a quantity: the look-ahead does not stand
\* on it, and no emitted item has its quantity from it.
C8_ConsumedLineIsNotReadAgain ==
    /\ \A x \in DOMAIN hist : hist[x].end > hist[x].start
    /\ pc = "scan" /\ hist # <<>> => i >= hist[Len(hist)].end
    /\ \A s \in skipped : ~(pc = "look" /\ j = s /\ j < window_end)
    /\ \A x \in DOMAIN hist : hist[x].src \notin skipped

\* C10: the quantity of an item comes from its own line or from a line
\* before the next item-start line.
C10_QuantityFromOwnRegion ==
    \A x \in DOMAIN hist :
        \/ hist[x].src = NoMatch
        \/ hist[x].src = hist[x].start
        \/ /\ hist[x].start < hist[x].src
           /\ hist[x].src < NextItemStart(hist[x].start)

====
